---- MODULE Spec2Model ----
(***************************************************************************)
(* The GitLab webhook service of code_review_backend: the webhook handler  *)
(* (gitlab_webhook), the two background review tasks (process_mr_review,   *)
(* process_push_review), the four module-level caches and the GitLab state *)
(* the tasks read and change.                                              *)
(*                                                                         *)
(* Abstractions.  md5(...).hexdigest()[:8] is treated as collision free:   *)
(* a digest is represented by the text it was computed from.  A rendered   *)
(* comment is represented by what format_review_comment puts into it.      *)
(* review_engine.review_mr is the boundary to the language model: a call   *)
(* either raises or returns a ReviewResult.                                *)
(***************************************************************************)
EXTENDS Integers, Sequences, FiniteSets, TLC

\* ------------------------------------------------------------------------
\* Bounds of the model
\* ------------------------------------------------------------------------
MaxEvents == 2

MaxEnv == 1

MaxFails == 1

MaxFiles == 3

\* ------------------------------------------------------------------------
\* Program constants
\* ------------------------------------------------------------------------
RecentNotes == 5

HTTP_200_OK == 200

HTTP_401_UNAUTHORIZED == 401

HTTP_500_INTERNAL_SERVER_ERROR == 500

\* ------------------------------------------------------------------------
\* The universe: one project, its merge requests and branches
\* ------------------------------------------------------------------------
MRs == {1}

Branches == {"b1"}

BranchOf(m) == "b1"

\* A branch of the project that has no merge request.
OtherBranches == {"b2"}

AllBranches == Branches \cup OtherBranches

\* An absent dictionary entry (dict.get -> None) is <<>>, a present one <<v>>.
None == <<>>

Some(v) == <<v>>

\* Diff entries as GitLab returns them: a path and the diff body.
Entry(p, d) == [path |-> p, diff |-> d]

Diffs ==
  { <<>>,
    << Entry("p1", "x") >>,
    << Entry("p1", "y"), Entry("p2", " ") >> }

\* file_diff_content and file_diff_content.strip()
HasContent(d) == d \notin {"", " "}

RECURSIVE DiffContentForHash(_)
DiffContentForHash(diff) ==
  IF diff = <<>> THEN <<>>
  ELSE IF HasContent(Head(diff).diff)
       THEN <<Head(diff).diff>> \o DiffContentForHash(Tail(diff))
       ELSE DiffContentForHash(Tail(diff))

\* diff_content_for_hash of the re-validation of a diff_cache entry: the
\* bodies with content of the stored diff, in the stored order
RECURSIVE CachedDiffContentForHash(_)
CachedDiffContentForHash(cached_diff) ==
  IF cached_diff = <<>> THEN <<>>
  ELSE IF HasContent(Head(cached_diff).diff)
       THEN <<Head(cached_diff).diff>>
              \o CachedDiffContentForHash(Tail(cached_diff))
       ELSE CachedDiffContentForHash(Tail(cached_diff))

\* hashlib.md5("\n".join(diff_content_for_hash).encode()).hexdigest()[:8]
DiffHash(content) == content

\* ------------------------------------------------------------------------
\* Review results and comments
\* ------------------------------------------------------------------------
\* A file entry of the parsed response: its "verdict" key may be missing.
FileWith(v) == [verdict |-> Some(v)]

FileNoVerdict == [verdict |-> None]

Result(fs, err) == [files |-> fs, error |-> err]

\* What review_mr can return: parsed file lists, an empty list, and the
\* fallback of _parse_response ({"files": [], "error": ...}).
OracleResults ==
  { Result(<<FileWith("APPROVE")>>, FALSE),
    Result(<<FileWith("CHANGES_REQUESTED")>>, FALSE),
    Result(<<FileWith("APPROVE"), FileWith("REJECT")>>, FALSE),
    Result(<<>>, TRUE) }

\* f.get("verdict", "CHANGES_REQUESTED")
GetVerdict(f) == IF f.verdict = None THEN "CHANGES_REQUESTED" ELSE f.verdict[1]

Verdicts(files) == [i \in 1..Len(files) |-> GetVerdict(files[i])]

AnyApprove(vs) == \E i \in 1..Len(vs) : vs[i] = "APPROVE"

\* all(v == "APPROVE" for v in verdicts)
AllApprove(vs) == \A i \in 1..Len(vs) : vs[i] = "APPROVE"

AnyReject(vs) == \E i \in 1..Len(vs) : vs[i] = "REJECT"

\* process_mr_review, fresh analysis (files_data is non-empty here)
OverallFresh(files) ==
  LET vs == Verdicts(files) IN
  IF AllApprove(vs) THEN "APPROVE"
  ELSE IF AnyReject(vs) THEN "REJECT"
  ELSE "CHANGES_REQUESTED"

\* process_mr_review, review taken from push_review_cache
OverallPending(files) ==
  IF files # <<>>
  THEN LET vs == Verdicts(files) IN
       IF AllApprove(vs) THEN "APPROVE"
       ELSE IF AnyReject(vs) THEN "REJECT"
       ELSE "CHANGES_REQUESTED"
  ELSE "CHANGES_REQUESTED"

\* process_push_review, open MR found for the branch
OverallPush(files) ==
  IF files # <<>>
  THEN LET vs == Verdicts(files) IN
       IF AllApprove(vs) THEN "APPROVE"
       ELSE IF AnyReject(vs) THEN "REJECT"
       ELSE "CHANGES_REQUESTED"
  ELSE "CHANGES_REQUESTED"

\* ReviewEngine.format_review_comment: the header names the overall verdict,
\* one section per file names the file's verdict.
Comment(k, o, vs) == [kind |-> k, overall |-> o, files |-> vs]

format_review_comment(result) ==
  IF result.files = <<>>
  THEN IF result.error THEN Comment("error", "", <<>>)
       ELSE Comment("nodata", "", <<>>)
  ELSE LET vs == Verdicts(result.files) IN
       Comment("review",
               IF AllApprove(vs) THEN "APPROVE"
               ELSE IF AnyReject(vs) THEN "REJECT"
               ELSE "CHANGES_REQUESTED",
               vs)

HumanComment == Comment("human", "", <<>>)

\* hashlib.md5(comment.encode()).hexdigest()[:8]
CommentHash(comment) == comment

\* "AI Code Review" in body
IsAiBody(body) == body.kind # "human"

\* A note at the gateway; fp remembers the diff fingerprint the comment was
\* written for (history only, the program never reads it).
Note(body, fp) == [body |-> body, fp |-> fp]

LastNotesNone(ns) == <<>>

\* notes[-5:]
LastNotes(ns) ==
  IF Len(ns) <= RecentNotes THEN ns
  ELSE SubSeq(ns, Len(ns) - RecentNotes + 1, Len(ns))

\* ------------------------------------------------------------------------
\* State
\* ------------------------------------------------------------------------
VARIABLES
  secret,               \* config.gitlab.webhook_secret_token is set
  branchDiff,           \* gateway: the diff of each branch against main
  mrOpen,               \* gateway: the MR is in state "opened"
  notes,                \* gateway: the notes of each MR, oldest first
  labels,               \* gateway: the labels of each MR
  approved,             \* gateway: the MR carries the service's approval
  processed_mr_cache,   \* {mr_key: last_comment_hash}
  diff_hash_cache,      \* {mr_key: last_diff_hash}
  diff_cache,           \* {mr_key: {"hash", "diff"}}
  push_review_cache,    \* {project:branch: {"review_result", "comment", ...}}
  tasks,                \* the tasks created by asyncio.create_task, oldest first
  response,             \* the HTTP response gitlab_webhook has just returned
  last,                 \* the review task that has just ended
  ended,                \* summary of the review task that ended last
  agg,                  \* a list of file entries and its overall verdicts
  fetch,                \* two fetches of one change and their fingerprints
  hooks,                \* gateway: the events its webhook has yet to send
  dialog,               \* ai_ba_agent: the ConversationState of a DialogManager
  nEvents,              \* review tasks created so far
  nEnv                  \* changes made at the gateway by its users so far

vars ==
  << secret, branchDiff, mrOpen, notes, labels, approved, processed_mr_cache,
     diff_hash_cache, diff_cache, push_review_cache, tasks, response, last,
     ended, agg, fetch, hooks, dialog, nEvents, nEnv >>

gateway == << branchDiff, mrOpen, notes, labels, approved >>

caches == << processed_mr_cache, diff_hash_cache, diff_cache, push_review_cache >>

\* ------------------------------------------------------------------------
\* webhook_handler.py
\* ------------------------------------------------------------------------
Tokens == {"none", "good", "bad"}

\* verify_webhook_signature: the header against the configured secret
verify_webhook_signature(configured, token) ==
  IF ~configured THEN TRUE
  ELSE IF token = "none" THEN FALSE
  ELSE token = "good"

\* The ref of a push payload, as its parts between the slashes:
\* "refs/heads/feature/main" is <<"refs", "heads", "feature", "main">>.
HeadRef(b) == <<"refs", "heads", b>>

PushRefs ==
  { HeadRef("main"), HeadRef("master"), <<"refs", "heads", "feature", "main">> }
  \cup { HeadRef(b) : b \in Branches }

MrPayload(m, st, act) ==
  [object_kind |-> "merge_request", attrs |-> TRUE, mr |-> m, state |-> st,
   action |-> act, ref |-> <<>>, commits |-> FALSE]

PushPayload(r, c) ==
  [object_kind |-> "push", attrs |-> FALSE, mr |-> 0, state |-> "",
   action |-> "", ref |-> r, commits |-> c]

OtherPayload(k) ==
  [object_kind |-> k, attrs |-> FALSE, mr |-> 0, state |-> "",
   action |-> "", ref |-> <<>>, commits |-> FALSE]

Payloads ==
  { MrPayload(m, st, act) :
      m \in MRs, st \in {"opened", "closed", "merged"},
      act \in {"open", "update", "reopen", "approved", "close"} }
  \cup { PushPayload(r, c) :
           r \in PushRefs, c \in BOOLEAN }
  \cup { OtherPayload("note"), OtherPayload("pipeline"),
         OtherPayload("merge_request") }

\* extract_mr_data returns a dictionary (TRUE) or None (FALSE)
extract_mr_data(payload) ==
  payload.object_kind = "merge_request" /\ payload.attrs

\* ref.endswith("/" + name)
EndsWith(ref, name) == Len(ref) >= 2 /\ ref[Len(ref)] = name

\* "/".join(parts)
RECURSIVE JoinPath(_)
JoinPath(parts) ==
  IF parts = <<>> THEN ""
  ELSE IF Len(parts) = 1 THEN parts[1]
  ELSE parts[1] \o "/" \o JoinPath(Tail(parts))

\* str.replace("refs/heads/", ""): every occurrence is taken out
RECURSIVE WithoutRefsHeads(_)
WithoutRefsHeads(parts) ==
  IF parts = <<>> THEN <<>>
  ELSE IF Len(parts) >= 3 /\ parts[1] = "refs" /\ parts[2] = "heads"
  THEN WithoutRefsHeads(SubSeq(parts, 3, Len(parts)))
  ELSE <<Head(parts)>> \o WithoutRefsHeads(Tail(parts))

\* ref.replace("refs/heads/", "")
RefBranch(ref) == JoinPath(WithoutRefsHeads(ref))

\* extract_push_data returns a dictionary (TRUE) or None (FALSE)
extract_push_data(payload) ==
  /\ payload.object_kind = "push"
  /\ ~(EndsWith(payload.ref, "main") \/ EndsWith(payload.ref, "master"))
  /\ payload.commits

\* ------------------------------------------------------------------------
\* gitlab_client.py: the calls of a task that can fail
\* ------------------------------------------------------------------------
Calls ==
  {"get_mr_changes", "get_mr_info", "compare_branches", "get_mr_notes",
   "post_mr_comment", "unblock_merge", "approve_mr", "block_merge",
   "update_mr_labels", "get_open_mrs_for_branch"}

\* The calls that fail during one run of a task.
FailSets == { F \in SUBSET Calls : Cardinality(F) <= MaxFails }

\* GitLabClient.block_merge: PUT labels="ai-review-blocked"
block_merge(ls) == {"ai-review-blocked"}

\* GitLabClient.unblock_merge: PUT the current labels without the sentinel
unblock_merge(ls) == ls \ {"ai-review-blocked"}

\* GitLabClient.update_mr_labels: PUT labels=",".join(labels)
update_mr_labels(ls, all_labels) == all_labels

VerdictLabels(overall) ==
  IF overall = "APPROVE" THEN {"ai-reviewed", "ready-for-merge"}
  ELSE IF overall = "CHANGES_REQUESTED" THEN {"ai-reviewed", "changes-requested"}
  ELSE IF overall = "REJECT" THEN {"ai-reviewed", "rejected"}
  ELSE {}

\* process_mr_review, "[5/5] Updating MR labels and merge status": the
\* approve/unblock or block calls are guarded by their own try/except, the
\* label update is not.  ls, ap: the MR's labels and approval at the gateway;
\* current_labels: mr_info["labels"] as fetched before the analysis.
\* ok is FALSE when update_mr_labels raised.
ApplyVerdictMr(overall, ls, ap, current_labels, fails) ==
  LET merged ==
        IF overall = "APPROVE"
        THEN IF "unblock_merge" \in fails
             THEN [ls |-> ls, ap |-> ap, n |-> 1, puts |-> 0, approvals |-> 0]
             ELSE IF "approve_mr" \in fails
                  THEN [ls |-> unblock_merge(ls), ap |-> ap, n |-> 2,
                        puts |-> 1, approvals |-> 0]
                  ELSE [ls |-> unblock_merge(ls), ap |-> TRUE, n |-> 2,
                        puts |-> 1, approvals |-> 1]
        ELSE IF "block_merge" \in fails
             THEN [ls |-> ls, ap |-> ap, n |-> 1, puts |-> 0, approvals |-> 0]
             ELSE [ls |-> block_merge(ls), ap |-> ap, n |-> 1,
                   puts |-> 1, approvals |-> 0]
      all_labels == current_labels \cup VerdictLabels(overall)
  IN IF "update_mr_labels" \in fails
     THEN [ls |-> merged.ls, ap |-> merged.ap, ok |-> FALSE, n |-> merged.n + 1,
           puts |-> merged.puts, approvals |-> merged.approvals]
     ELSE [ls |-> update_mr_labels(merged.ls, all_labels), ap |-> merged.ap,
           ok |-> TRUE, n |-> merged.n + 1,
           puts |-> merged.puts + 1, approvals |-> merged.approvals]

\* process_push_review, open MR found: the calls are not guarded one by one.
\* ok is FALSE when one of them raised.
ApplyVerdictPush(overall, ls, ap, fails) ==
  IF overall = "APPROVE"
  THEN IF "unblock_merge" \in fails
       THEN [ls |-> ls, ap |-> ap, ok |-> FALSE, n |-> 1,
             puts |-> 0, approvals |-> 0]
       ELSE IF "approve_mr" \in fails
            THEN [ls |-> unblock_merge(ls), ap |-> ap, ok |-> FALSE, n |-> 2,
                  puts |-> 1, approvals |-> 0]
            ELSE [ls |-> unblock_merge(ls), ap |-> TRUE, ok |-> TRUE, n |-> 2,
                  puts |-> 1, approvals |-> 1]
  ELSE IF "block_merge" \in fails
       THEN [ls |-> ls, ap |-> ap, ok |-> FALSE, n |-> 1,
             puts |-> 0, approvals |-> 0]
       ELSE [ls |-> block_merge(ls), ap |-> ap, ok |-> TRUE, n |-> 1,
             puts |-> 1, approvals |-> 0]

\* _has_recent_ai_comment(project_id, mr_iid, comment_hash): cached is
\* processed_mr_cache.get(cache_key), ns the notes of the MR at the gateway.
\* found: the return value; cached: the entry afterwards; n: gateway calls;
\* how: answered from the cache, from the notes, or without them (the
\* exception of get_mr_notes is caught and the answer is False).
has_recent_ai_comment(cached, ns, comment_hash, fails) ==
  IF cached = Some(comment_hash)
  THEN [found |-> TRUE, cached |-> cached, n |-> 0, how |-> "cached"]
  ELSE IF "get_mr_notes" \in fails
  THEN [found |-> FALSE, cached |-> cached, n |-> 1, how |-> "unavailable"]
  ELSE LET recent == LastNotes(ns) IN
       IF \E i \in 1..Len(recent) :
            /\ IsAiBody(recent[i].body)
            /\ CommentHash(recent[i].body) = comment_hash
       THEN [found |-> TRUE, cached |-> Some(comment_hash), n |-> 1,
             how |-> "scanned"]
       ELSE [found |-> FALSE, cached |-> cached, n |-> 1, how |-> "scanned"]


\* ------------------------------------------------------------------------
\* main.py: the review tasks
\* ------------------------------------------------------------------------
\* What one run of a task (from where it starts or resumes to where it waits
\* for review_mr or ends) leaves behind for the MR m and the branch b it is
\* about.  pc = "oracle": the task is inside review_engine.review_mr;
\* pc = "done": the task ended with the given outcome.
Untouched(m, b) ==
  [ pmc |-> IF m \in MRs THEN processed_mr_cache[m] ELSE None,
    dhc |-> IF m \in MRs THEN diff_hash_cache[m] ELSE None,
    dc |-> IF m \in MRs THEN diff_cache[m] ELSE None,
    prc |-> push_review_cache[b],
    ns |-> IF m \in MRs THEN notes[m] ELSE <<>>,
    ls |-> IF m \in MRs THEN labels[m] ELSE {},
    ap |-> IF m \in MRs THEN approved[m] ELSE FALSE,
    pc |-> "done", outcome |-> "", failed |-> "",
    hash |-> None, diff |-> <<>>, info |-> {},
    result |-> None, comment |-> None, posted |-> None, overall |-> "",
    labelSeq |-> 0, oracle |-> 0, n |-> 0, puts |-> 0, approvals |-> 0,
    guard |-> "none", gate |-> FALSE ]

PendingReviewNoDiffHash(result, comment, diff_hash) ==
  [review_result |-> result, comment |-> comment,
   comment_hash |-> CommentHash(comment), diff_hash |-> None]

\* process_push_review: the entry stored in push_review_cache
PendingReview(result, comment, diff_hash) ==
  [review_result |-> result, comment |-> comment,
   comment_hash |-> CommentHash(comment), diff_hash |-> diff_hash]

\* process_mr_review, the review found in push_review_cache for the branch
\* (action "open", equal diff hash): publish it without calling review_mr.
UsePendingReview(s, pend, cur, fails) ==
  LET overall == OverallPending(pend.review_result.files)
      g == has_recent_ai_comment(s.pmc, s.ns, pend.comment_hash, fails)
      s1 == [s EXCEPT !.result = Some(pend.review_result),
                      !.comment = Some(pend.comment), !.overall = overall,
                      !.guard = g.how, !.n = s.n + g.n]
  IN IF g.found
     THEN [s1 EXCEPT !.pmc = g.cached, !.prc = None,
                     !.outcome = "SKIP_DUPLICATE"]
     ELSE IF "post_mr_comment" \in fails
     THEN [s1 EXCEPT !.outcome = "ERROR", !.failed = "post_mr_comment",
                     !.n = s1.n + 1]
     ELSE LET v == ApplyVerdictMr(overall, s.ls, s.ap, s.info, fails)
              s2 == [s1 EXCEPT !.ns = Append(s.ns, Note(pend.comment, cur)),
                               !.posted = Some(pend.comment),
                               !.labelSeq = 1, !.ls = v.ls, !.ap = v.ap,
                               !.puts = v.puts, !.approvals = v.approvals,
                               !.n = s1.n + 1 + v.n]
          IN IF ~v.ok
             THEN [s2 EXCEPT !.outcome = "ERROR", !.failed = "update_mr_labels"]
             ELSE [s2 EXCEPT !.pmc = Some(pend.comment_hash),
                             !.dhc = Some(cur), !.prc = None,
                             !.outcome = "PROMOTED"]

DiffSnapshotAllBodies(hash, diff) ==
  [hash |-> DiffHash([i \in DOMAIN diff |-> diff[i].diff]), diff |-> diff]

\* diff_cache[cache_key] = {"hash": current_diff_hash, "diff": diff, ...}
DiffSnapshot(hash, diff) == [hash |-> hash, diff |-> diff]

FastPathAnyAction(action) == TRUE

\* if action == "open" and push_cache_key in push_review_cache: (the action)
FastPathAction(action) == action = "open"

\* ... push_cache_key in push_review_cache, and
\* if cached_diff_hash == current_diff_hash:
PendingMatches(pend, cur) == pend # None /\ pend[1].diff_hash = cur

SkipUnchangedForget(s) == [s EXCEPT !.outcome = "SKIP_UNCHANGED", !.dhc = None]

\* process_mr_review, "Diff unchanged ..., skipping review": return
SkipUnchanged(s) == [s EXCEPT !.outcome = "SKIP_UNCHANGED"]

\* process_mr_review from its first line to the call of review_mr.
MrReviewStart(t, fails) ==
  LET m == t.mr
      b == t.branch
      base == Untouched(m, b)
      cached == diff_cache[m]
      useCache ==
        /\ cached # None
        /\ CachedDiffContentForHash(cached[1].diff) # <<>>
        /\ DiffHash(CachedDiffContentForHash(cached[1].diff)) = cached[1].hash
      fetched == branchDiff[b]
      content == DiffContentForHash(fetched)
  IN IF ~useCache /\ "get_mr_changes" \in fails
     THEN [base EXCEPT !.outcome = "ERROR", !.failed = "get_mr_changes", !.n = 1]
     ELSE IF ~useCache /\ (fetched = <<>> \/ content = <<>>)
     THEN [base EXCEPT !.outcome = "NO_CHANGES", !.n = 1]
     ELSE
       LET diff == IF useCache THEN cached[1].diff ELSE fetched
           cur == IF useCache THEN cached[1].hash ELSE DiffHash(content)
           n1 == IF useCache THEN 0 ELSE 1
           s1 == [base EXCEPT
                    !.dc = IF useCache THEN cached
                           ELSE Some(DiffSnapshot(cur, diff)),
                    !.n = n1, !.hash = Some(cur), !.diff = diff]
       IN IF diff_hash_cache[m] = Some(cur)
          THEN SkipUnchanged(s1)
          ELSE IF "get_mr_info" \in fails
          THEN [s1 EXCEPT !.outcome = "ERROR", !.failed = "get_mr_info",
                          !.n = n1 + 1, !.gate = TRUE]
          ELSE
            LET s2 == [s1 EXCEPT !.n = n1 + 1, !.info = labels[m], !.gate = TRUE]
                pend == push_review_cache[b]
            IN IF FastPathAction(t.action) /\ PendingMatches(pend, cur)
               THEN UsePendingReview(s2, pend[1], cur, fails)
               ELSE [s2 EXCEPT !.pc = "oracle", !.oracle = 1]

\* What review_engine.review_mr does: it raises, or it returns a result.
OracleOutcomes ==
  { [raised |-> TRUE, result |-> Result(<<>>, TRUE)] }
  \cup { [raised |-> FALSE, result |-> r] : r \in OracleResults }

RecordAnalyzedNoHash(s, comment_hash, hash, diff) ==
  [s EXCEPT !.pmc = Some(comment_hash)]

\* process_mr_review, "save to the cache BEFORE publishing": the comment
\* hash, the diff hash, and the diff if the cache holds none for this hash.
RecordAnalyzed(s, comment_hash, hash, diff) ==
  [s EXCEPT !.pmc = Some(comment_hash),
            !.dhc = Some(hash),
            !.dc = IF s.dc = None \/ s.dc[1].hash # hash
                   THEN Some(DiffSnapshot(hash, diff))
                   ELSE s.dc]

\* process_mr_review from the return of review_mr to its end.
MrReviewResume(t, out, fails) ==
  LET m == t.mr
      b == t.branch
      base == [Untouched(m, b) EXCEPT !.hash = Some(t.hash), !.diff = t.diff,
                                      !.info = t.info, !.gate = TRUE,
                                      !.oracle = 1]
      files_data == out.result.files
  IN IF out.raised
     THEN [base EXCEPT !.outcome = "ERROR", !.failed = "review_mr"]
     ELSE IF files_data = <<>>
     THEN [base EXCEPT !.outcome = "NO_FILES", !.result = Some(out.result)]
     ELSE
       LET overall == OverallFresh(files_data)
           comment == format_review_comment(out.result)
           comment_hash == CommentHash(comment)
           g == has_recent_ai_comment(base.pmc, base.ns, comment_hash, fails)
           s1 == [base EXCEPT !.result = Some(out.result),
                              !.comment = Some(comment), !.overall = overall,
                              !.guard = g.how, !.n = g.n]
       IN IF g.found
          THEN [s1 EXCEPT !.pmc = g.cached, !.outcome = "SKIP_DUPLICATE"]
          ELSE
            LET s2 == RecordAnalyzed(s1, comment_hash, t.hash, t.diff)
            IN IF "post_mr_comment" \in fails
               THEN [s2 EXCEPT !.outcome = "ERROR",
                               !.failed = "post_mr_comment", !.n = s1.n + 1]
               ELSE
                 LET v == ApplyVerdictMr(overall, base.ls, base.ap, t.info, fails)
                     s3 == [s2 EXCEPT
                              !.ns = Append(base.ns, Note(comment, t.hash)),
                              !.posted = Some(comment), !.labelSeq = 1,
                              !.ls = v.ls, !.ap = v.ap, !.puts = v.puts,
                              !.approvals = v.approvals,
                              !.n = s1.n + 1 + v.n]
                 IN IF ~v.ok
                    THEN [s3 EXCEPT !.outcome = "ERROR",
                                    !.failed = "update_mr_labels"]
                    ELSE [s3 EXCEPT !.outcome = "COMPLETED"]

\* process_push_review from its first line to the call of review_mr.
PushReviewStart(t, fails) ==
  LET b == t.branch
      base == Untouched(0, b)
      diffs == branchDiff[b]
      content == DiffContentForHash(diffs)
  IN IF "compare_branches" \in fails
     THEN [base EXCEPT !.outcome = "ERROR", !.failed = "compare_branches", !.n = 1]
     ELSE IF diffs = <<>> \/ content = <<>>
     THEN [base EXCEPT !.outcome = "NO_CHANGES", !.n = 1]
     ELSE [base EXCEPT !.pc = "oracle", !.oracle = 1, !.n = 1,
                       !.hash = Some(DiffHash(content)), !.diff = diffs]

\* get_open_mrs_for_branch(project_id, branch)
OpenMrs(b) == { m \in MRs : BranchOf(m) = b /\ mrOpen[m] }

\* mrs[0] when the list is not empty, 0 when it is
FirstOpenMr(b) ==
  IF OpenMrs(b) = {} THEN 0
  ELSE CHOOSE m \in OpenMrs(b) : \A k \in OpenMrs(b) : m <= k

\* process_push_review from the return of review_mr to its end.
PushReviewResume(t, out, fails) ==
  LET b == t.branch
      m == FirstOpenMr(b)
      base == [Untouched(m, b) EXCEPT !.hash = Some(t.hash), !.diff = t.diff,
                                      !.oracle = 1]
  IN IF out.raised
     THEN [base EXCEPT !.outcome = "ERROR", !.failed = "review_mr"]
     ELSE
       LET comment == format_review_comment(out.result)
           comment_hash == CommentHash(comment)
           pending == Some(PendingReview(out.result, comment, t.hash))
           s1 == [base EXCEPT !.result = Some(out.result),
                              !.comment = Some(comment), !.n = 1]
       IN IF "get_open_mrs_for_branch" \in fails
          THEN [s1 EXCEPT !.prc = pending, !.outcome = "ERROR",
                          !.failed = "get_open_mrs_for_branch"]
          ELSE IF m = 0
          THEN [s1 EXCEPT !.prc = pending, !.outcome = "PENDING_STORED"]
          ELSE
            LET g == has_recent_ai_comment(base.pmc, base.ns, comment_hash, fails)
                s2 == [s1 EXCEPT !.guard = g.how, !.n = 1 + g.n]
            IN IF g.found
               THEN [s2 EXCEPT !.pmc = g.cached, !.outcome = "SKIP_DUPLICATE"]
               ELSE IF "post_mr_comment" \in fails
               THEN [s2 EXCEPT !.prc = pending, !.outcome = "ERROR",
                               !.failed = "post_mr_comment", !.n = s2.n + 1]
               ELSE
                 LET overall == OverallPush(out.result.files)
                     v == ApplyVerdictPush(overall, base.ls, base.ap, fails)
                     s3 == [s2 EXCEPT
                              !.ns = Append(base.ns, Note(comment, t.hash)),
                              !.posted = Some(comment), !.overall = overall,
                              !.labelSeq = 1, !.ls = v.ls, !.ap = v.ap,
                              !.puts = v.puts, !.approvals = v.approvals,
                              !.n = s2.n + 1 + v.n]
                 IN IF ~v.ok
                    THEN [s3 EXCEPT !.prc = pending, !.outcome = "ERROR",
                                    !.failed = "merge_status"]
                    ELSE [s3 EXCEPT !.outcome = "PUSH_POSTED"]

\* ------------------------------------------------------------------------
\* The event loop
\* ------------------------------------------------------------------------
NewTaskStarted(k, m, b, act) ==
  [ kind |-> k, mr |-> m, branch |-> b, action |-> act, pc |-> "oracle",
    hash |-> <<>>, diff |-> <<>>, info |-> {}, gwDiff |-> <<>>,
    preDc |-> None,
    together |-> \E j \in 1..Len(tasks) : tasks[j].branch = b,
    raced |-> FALSE ]

\* asyncio.create_task(process_mr_review(mr_data)) and
\* asyncio.create_task(process_push_review(push_data)): the coroutine is
\* scheduled, not started.
\* gwDiff: the diff the gateway held for the branch when the task started;
\* together: the task was created while another task for the same branch
\* was waiting or running; raced: it ran while such a task was inside
\* review_mr; preDc: the entry of diff_cache for the MR when the task started
\* (history only, the program never reads them).
NewTask(k, m, b, act) ==
  [ kind |-> k, mr |-> m, branch |-> b, action |-> act, pc |-> "created",
    hash |-> <<>>, diff |-> <<>>, info |-> {}, gwDiff |-> <<>>,
    preDc |-> None,
    together |-> \E j \in 1..Len(tasks) : tasks[j].branch = b,
    raced |-> FALSE ]

LoopIdleAwait == TRUE

\* process_mr_review and process_push_review are coroutines without an await:
\* once the loop has started one of them, it runs nothing else until that
\* task has ended, the blocking call of review_mr included.
LoopIdle == \A j \in 1..Len(tasks) : tasks[j].pc # "oracle"

NoResponse ==
  [status |-> 0, scheduled |-> FALSE, parsed |-> FALSE, token |-> "none",
   payload |-> OtherPayload("")]

NoRun ==
  [ kind |-> "none", mr |-> 0, branch |-> "", action |-> "", outcome |-> "",
    gwDiff |-> <<>>, posts |-> 0, labelSeq |-> 0, gate |-> FALSE ]

NoTask ==
  [ kind |-> "none", mr |-> 0, branch |-> "", action |-> "", outcome |-> "",
    failed |-> "", hash |-> None, comment |-> None, posted |-> None,
    overall |-> "", labelSeq |-> 0, oracle |-> 0, gate |-> FALSE,
    guard |-> "none", calls |-> 0, gwDiff |-> <<>>, together |-> FALSE,
    raced |-> FALSE, result |-> None, preDc |-> None,
    prePmc |-> None, preDhc |-> None, prePrc |-> None,
    preNotes |-> <<>>, preLabels |-> {}, info |-> {}, before |-> NoRun ]

StartDiff(t) == IF t.pc = "oracle" THEN t.gwDiff ELSE branchDiff[t.branch]

StartDc(t) ==
  IF t.pc = "oracle" THEN t.preDc
  ELSE IF t.mr \in MRs THEN diff_cache[t.mr] ELSE None

\* The record of a task that has just ended: what it was about, how it
\* ended, what it found when it ran, and the task that ended before it
\* (history only, the program never reads it).
Ended(t, m, e) ==
  [ kind |-> t.kind, mr |-> m, branch |-> t.branch, action |-> t.action,
    outcome |-> e.outcome, failed |-> e.failed, hash |-> e.hash,
    comment |-> e.comment, posted |-> e.posted, overall |-> e.overall,
    labelSeq |-> e.labelSeq, oracle |-> e.oracle, gate |-> e.gate,
    guard |-> e.guard, calls |-> e.n, gwDiff |-> StartDiff(t),
    together |-> t.together, raced |-> t.raced,
    result |-> e.result, preDc |-> StartDc(t),
    prePmc |-> IF m \in MRs THEN processed_mr_cache[m] ELSE None,
    preDhc |-> IF m \in MRs THEN diff_hash_cache[m] ELSE None,
    prePrc |-> push_review_cache[t.branch],
    preNotes |-> IF m \in MRs THEN notes[m] ELSE <<>>,
    preLabels |-> IF m \in MRs THEN labels[m] ELSE {},
    info |-> e.info, before |-> ended ]

Summary(t, m, e) ==
  [ kind |-> t.kind, mr |-> m, branch |-> t.branch, action |-> t.action,
    outcome |-> e.outcome, gwDiff |-> StartDiff(t),
    posts |-> IF e.posted = None THEN 0 ELSE 1, labelSeq |-> e.labelSeq,
    gate |-> e.gate ]

RemoveAt(seq, i) == SubSeq(seq, 1, i - 1) \o SubSeq(seq, i + 1, Len(seq))

\* The events the gateway's webhook has yet to send for what the service
\* did to the merge request: note events for comments, approved events for
\* approvals, update events for the PUTs of labels (one for every PUT).
\* on: the webhook sends these events to the service.
HooksOff == [on |-> FALSE, note |-> 0, approved |-> 0, update |-> 0]

NoHooks == [HooksOff EXCEPT !.on = TRUE]

\* A task has ended as e says: the events its calls cause.
Triggered(h, e) ==
  IF ~h.on THEN h
  ELSE [h EXCEPT !.note = @ + (IF e.posted = None THEN 0 ELSE 1),
                 !.approved = @ + e.approvals,
                 !.update = @ + e.puts]

\* The event of a payload the webhook has yet to send, "" when none.
HookOf(h, payload) ==
  IF payload.object_kind = "note" /\ h.note > 0 THEN "note"
  ELSE IF payload.object_kind = "merge_request" /\ payload.state = "opened"
  THEN IF payload.action = "approved" /\ h.approved > 0 THEN "approved"
       ELSE IF payload.action = "update" /\ h.update > 0 THEN "update"
       ELSE ""
  ELSE ""

\* The webhook has sent the payload.
Sent(h, payload) ==
  IF HookOf(h, payload) = "note" THEN [h EXCEPT !.note = @ - 1]
  ELSE IF HookOf(h, payload) = "approved" THEN [h EXCEPT !.approved = @ - 1]
  ELSE IF HookOf(h, payload) = "update" THEN [h EXCEPT !.update = @ - 1]
  ELSE h

\* Task i has run to where e says: the caches and the gateway take the
\* values e holds for MR m and the task's branch.
Commit(i, m, e) ==
  LET t == tasks[i]
      b == t.branch
      racing == \E j \in 1..Len(tasks) :
                  j # i /\ tasks[j].pc = "oracle" /\ tasks[j].branch = b
  IN
  /\ processed_mr_cache' =
       IF m \in MRs THEN [processed_mr_cache EXCEPT ![m] = e.pmc]
       ELSE processed_mr_cache
  /\ diff_hash_cache' =
       IF m \in MRs THEN [diff_hash_cache EXCEPT ![m] = e.dhc]
       ELSE diff_hash_cache
  /\ diff_cache' =
       IF m \in MRs THEN [diff_cache EXCEPT ![m] = e.dc] ELSE diff_cache
  /\ push_review_cache' = [push_review_cache EXCEPT ![b] = e.prc]
  /\ notes' = IF m \in MRs THEN [notes EXCEPT ![m] = e.ns] ELSE notes
  /\ labels' = IF m \in MRs THEN [labels EXCEPT ![m] = e.ls] ELSE labels
  /\ approved' = IF m \in MRs THEN [approved EXCEPT ![m] = e.ap] ELSE approved
  /\ tasks' =
       IF e.pc = "done" THEN RemoveAt(tasks, i)
       ELSE [ j \in 1..Len(tasks) |->
                IF j = i
                THEN [t EXCEPT !.pc = "oracle", !.hash = e.hash[1],
                               !.diff = e.diff, !.info = e.info,
                               !.gwDiff = branchDiff[b], !.preDc = StartDc(t),
                               !.raced = racing]
                ELSE IF racing /\ tasks[j].pc = "oracle" /\ tasks[j].branch = b
                THEN [tasks[j] EXCEPT !.raced = TRUE]
                ELSE tasks[j] ]
  /\ last' = IF e.pc = "done" THEN Ended(t, m, e) ELSE NoTask
  /\ ended' = IF e.pc = "done" THEN Summary(t, m, e) ELSE ended
  /\ response' = NoResponse
  /\ hooks' = IF e.pc = "done" THEN Triggered(hooks, e) ELSE hooks
  /\ UNCHANGED << secret, branchDiff, mrOpen, agg, fetch, dialog, nEvents,
                  nEnv >>

\* The first task the loop has not started yet.
NextCreated ==
  CHOOSE i \in 1..Len(tasks) :
    /\ tasks[i].pc = "created"
    /\ \A j \in 1..(i - 1) : tasks[j].pc # "created"

\* ------------------------------------------------------------------------
\* main.py: gitlab_webhook
\* ------------------------------------------------------------------------
\* The handler's try block is closed by "except Exception", which answers
\* 500 for whatever was raised inside, the HTTPException included.
ExceptException(raised_status) == HTTP_500_INTERNAL_SERVER_ERROR

ReviewActionsWide == {"open", "update", "reopen", "close"}

\* if action not in ["open", "update", "reopen"]: ignored
ReviewActions == {"open", "update", "reopen"}

\* status: the response code; task: what asyncio.create_task was given;
\* parsed: request.json() was reached.
WebhookResult(configured, token, payload) ==
  IF ~verify_webhook_signature(configured, token)
  THEN [status |-> ExceptException(HTTP_401_UNAUTHORIZED), task |-> "none",
        parsed |-> FALSE]
  ELSE IF payload.object_kind = "note"
  THEN [status |-> HTTP_200_OK, task |-> "none", parsed |-> TRUE]
  ELSE IF extract_mr_data(payload)
  THEN IF payload.state \in {"closed", "merged"}
       THEN [status |-> HTTP_200_OK, task |-> "none", parsed |-> TRUE]
       ELSE IF payload.action = "approved"
       THEN [status |-> HTTP_200_OK, task |-> "none", parsed |-> TRUE]
       ELSE IF payload.action \notin ReviewActions
       THEN [status |-> HTTP_200_OK, task |-> "none", parsed |-> TRUE]
       ELSE [status |-> HTTP_200_OK, task |-> "mr", parsed |-> TRUE]
  ELSE IF extract_push_data(payload)
  THEN [status |-> HTTP_200_OK, task |-> "push", parsed |-> TRUE]
  ELSE [status |-> HTTP_200_OK, task |-> "none", parsed |-> TRUE]

\* One request to POST /webhook/gitlab, from its first line to its return.
\* The handler calls neither the gateway nor review_mr.
gitlab_webhook(token, payload) ==
  /\ LoopIdle
  /\ LET r == WebhookResult(secret, token, payload) IN
     /\ tasks' =
          IF r.task = "mr"
          THEN Append(tasks, NewTask("mr", payload.mr, BranchOf(payload.mr),
                                     payload.action))
          ELSE IF r.task = "push"
          THEN Append(tasks, NewTask("push", 0, RefBranch(payload.ref), ""))
          ELSE tasks
     /\ response' =
          [status |-> r.status, scheduled |-> r.task # "none",
           parsed |-> r.parsed, token |-> token, payload |-> payload]
     /\ nEvents' = IF r.task = "none" THEN nEvents ELSE nEvents + 1
  /\ last' = NoTask
  /\ hooks' = Sent(hooks, payload)
  /\ UNCHANGED << secret, gateway, caches, ended, agg, fetch, dialog, nEnv >>

\* ------------------------------------------------------------------------
\* The tasks as the loop runs them
\* ------------------------------------------------------------------------
process_mr_review_start(fails) ==
  /\ LoopIdle
  /\ \E i \in 1..Len(tasks) : tasks[i].pc = "created"
  /\ tasks[NextCreated].kind = "mr"
  /\ Commit(NextCreated, tasks[NextCreated].mr,
            MrReviewStart(tasks[NextCreated], fails))

process_mr_review_resume(i, out, fails) ==
  /\ tasks[i].kind = "mr"
  /\ tasks[i].pc = "oracle"
  /\ Commit(i, tasks[i].mr, MrReviewResume(tasks[i], out, fails))

process_push_review_start(fails) ==
  /\ LoopIdle
  /\ \E i \in 1..Len(tasks) : tasks[i].pc = "created"
  /\ tasks[NextCreated].kind = "push"
  /\ Commit(NextCreated, 0, PushReviewStart(tasks[NextCreated], fails))

process_push_review_resume(i, out, fails) ==
  /\ tasks[i].kind = "push"
  /\ tasks[i].pc = "oracle"
  /\ Commit(i, FirstOpenMr(tasks[i].branch),
            PushReviewResume(tasks[i], out, fails))

\* ------------------------------------------------------------------------
\* The users of the gateway
\* ------------------------------------------------------------------------
\* A developer pushes to the branch: its diff against main changes.
DeveloperPush(b, d) ==
  /\ d # branchDiff[b]
  /\ branchDiff' = [branchDiff EXCEPT ![b] = d]
  /\ nEnv' = nEnv + 1
  /\ response' = NoResponse
  /\ last' = NoTask
  /\ UNCHANGED << secret, mrOpen, notes, labels, approved, caches, tasks,
                  ended, agg, fetch, hooks, dialog, nEvents >>

\* The merge request is opened, or closed.
SetMrState(m) ==
  /\ mrOpen' = [mrOpen EXCEPT ![m] = ~mrOpen[m]]
  /\ nEnv' = nEnv + 1
  /\ response' = NoResponse
  /\ last' = NoTask
  /\ UNCHANGED << secret, branchDiff, notes, labels, approved, caches, tasks,
                  ended, agg, fetch, hooks, dialog, nEvents >>

\* People discuss on the merge request: k notes of theirs are added.
HumanNotes(m, k) ==
  /\ notes' = [notes EXCEPT
                 ![m] = @ \o [j \in 1..k |-> Note(HumanComment, <<>>)]]
  /\ nEnv' = nEnv + 1
  /\ response' = NoResponse
  /\ last' = NoTask
  /\ UNCHANGED << secret, branchDiff, mrOpen, labels, approved, caches, tasks,
                  ended, agg, fetch, hooks, dialog, nEvents >>

\* ------------------------------------------------------------------------
\* The overall verdict of a list of file entries, at its four sites
\* ------------------------------------------------------------------------
FileEntries ==
  { FileWith(v) : v \in {"APPROVE", "CHANGES_REQUESTED", "REJECT", "OTHER"} }
  \cup { FileNoVerdict }

NoAggregate ==
  [files |-> <<>>, fresh |-> "", pending |-> "", push |-> "", header |-> ""]

\* One more file entry in the parsed response: the overall verdict as
\* process_mr_review (fresh analysis, stored push review),
\* process_push_review and format_review_comment compute it.
Aggregate(f) ==
  /\ Len(agg.files) < MaxFiles
  /\ agg' = LET fs == Append(agg.files, f) IN
            [files |-> fs,
             fresh |-> OverallFresh(fs),
             pending |-> OverallPending(fs),
             push |-> OverallPush(fs),
             header |-> format_review_comment(Result(fs, FALSE)).overall]
  /\ UNCHANGED << secret, gateway, caches, tasks, response, last, ended,
                  fetch, hooks, dialog, nEvents, nEnv >>

\* ------------------------------------------------------------------------
\* The fingerprint of a diff, as the two tasks compute it
\* ------------------------------------------------------------------------
MaxEntries == 3

Paths == {"p1", "p2", "p3"}

FetchedEntries == { Entry(p, d) : p \in Paths, d \in {"x", "y", " "} }

PathsOf(diff) == { diff[i].path : i \in DOMAIN diff }

\* process_push_review: diff_content_for_hash, the bodies with content in the
\* order of the list compare_branches returned
RECURSIVE PushDiffContentForHash(_)
PushDiffContentForHash(diffs) ==
  IF diffs = <<>> THEN <<>>
  ELSE IF HasContent(Head(diffs).diff)
       THEN <<Head(diffs).diff>> \o PushDiffContentForHash(Tail(diffs))
       ELSE PushDiffContentForHash(Tail(diffs))

FingerprintsAllBodies(first, second) ==
  [first |-> first, second |-> second,
   mrFirst |-> DiffHash(DiffContentForHash(first)),
   mrSecond |-> DiffHash(DiffContentForHash(second)),
   mrCached |-> DiffHash([i \in DOMAIN first |-> first[i].diff]),
   pushFirst |-> DiffHash(PushDiffContentForHash(first)),
   pushSecond |-> DiffHash(PushDiffContentForHash(second))]

\* current_diff_hash of process_mr_review and diff_hash of
\* process_push_review for the two fetches, and computed_hash of
\* process_mr_review for the first fetch kept in diff_cache
Fingerprints(first, second) ==
  [first |-> first, second |-> second,
   mrFirst |-> DiffHash(DiffContentForHash(first)),
   mrSecond |-> DiffHash(DiffContentForHash(second)),
   mrCached |-> DiffHash(CachedDiffContentForHash(first)),
   pushFirst |-> DiffHash(PushDiffContentForHash(first)),
   pushSecond |-> DiffHash(PushDiffContentForHash(second))]

NoFetch == Fingerprints(<<>>, <<>>)

Fingerprinted(f) ==
  /\ fetch' = f
  /\ UNCHANGED << secret, gateway, caches, tasks, response, last, ended, agg,
                  hooks, dialog, nEvents, nEnv >>

\* The change holds one more file: both fetches return its entry last.
ChangeFile(e) ==
  /\ Len(fetch.first) < MaxEntries
  /\ e.path \notin PathsOf(fetch.first) \cup PathsOf(fetch.second)
  /\ Fingerprinted(Fingerprints(Append(fetch.first, e), Append(fetch.first, e)))

\* GitLab returns the files of the second fetch in another order.
ReorderEntries(i, j) ==
  /\ i < j
  /\ j <= Len(fetch.second)
  /\ Fingerprinted(Fingerprints(fetch.first,
        [fetch.second EXCEPT ![i] = fetch.second[j], ![j] = fetch.second[i]]))

\* The second fetch names a file otherwise (new_path, headers): the diff
\* body is the same.
ChangeMetadata(i, p) ==
  /\ i <= Len(fetch.second)
  /\ p \notin PathsOf(fetch.second)
  /\ Fingerprinted(Fingerprints(fetch.first,
        [fetch.second EXCEPT ![i] = Entry(p, fetch.second[i].diff)]))

\* ------------------------------------------------------------------------
\* ai_ba_agent: the dialog that collects the requirement fields
\* ------------------------------------------------------------------------
\* A text is the sequence of its characters; the Latin letters of the
\* placeholders stand for the Cyrillic ones of the source.
MIN_ANSWER_LENGTH == 5

FIELD_SEQUENCE ==
  << "description", "problem", "goal", "stakeholders", "roles", "scope",
     "out_of_scope", "kpi", "business_rules", "constraints", "risks",
     "assumptions", "nfr", "process_description" >>

Fields == { FIELD_SEQUENCE[i] : i \in DOMAIN FIELD_SEQUENCE }

NotSpecified == << "n", "e", " ", "u", "k", "a", "z", "a", "n", "o" >>

NotFilledIn == << "n", "e", " ", "z", "a", "p", "o", "l", "n", "e", "n", "o" >>

\* value in ["—", "-", "не указано", "не заполнено", ""]; "emdash" is the
\* one character of the first.
Placeholders == { << "emdash" >>, << "-" >>, NotSpecified, NotFilledIn, <<>> }

\* What the user types.
AnswerTexts ==
  { <<>>,
    << " ", " " >>,
    << "a", "b", "c" >>,
    << "-" >>,
    << " ", "n", "e", " ", " ", "u", "k", "a", "z", "a", "n", "o", " " >>,
    << "l", "o", "g", "i", "n", "s" >> }

IsSpace(c) == c = " "

RECURSIVE LStrip(_)
LStrip(text) ==
  IF text # <<>> /\ IsSpace(Head(text)) THEN LStrip(Tail(text)) ELSE text

RECURSIVE RStrip(_)
RStrip(text) ==
  IF text # <<>> /\ IsSpace(text[Len(text)])
  THEN RStrip(SubSeq(text, 1, Len(text) - 1))
  ELSE text

\* str.strip()
Strip(text) == RStrip(LStrip(text))

\* re.sub(r"\s+", " ", text)
RECURSIVE CollapseSpaces(_)
CollapseSpaces(text) ==
  IF text = <<>> THEN <<>>
  ELSE IF IsSpace(Head(text))
       THEN << " " >> \o CollapseSpaces(LStrip(text))
       ELSE << Head(text) >> \o CollapseSpaces(Tail(text))

normalize_answer(text) ==
  IF text = <<>> THEN <<>> ELSE CollapseSpaces(Strip(text))

is_answer_valid(field_key, value) ==
  IF value = <<>> THEN FALSE ELSE Len(value) >= MIN_ANSWER_LENGTH

\* ConversationState(): no answers
NoDialog ==
  [state |-> [answers |-> [f \in Fields |-> None]], returned |-> "",
   raised |-> FALSE]

\* self.state.answers.get(field), and .get(field, "")
AnswerOf(state, field) ==
  IF state.answers[field] = None THEN <<>> ELSE state.answers[field][1]

\* DialogManager.current_field: the position in FIELD_SEQUENCE of the first
\* field without an answer, 0 when there is none (None).
current_field(state) ==
  IF \E i \in DOMAIN FIELD_SEQUENCE : AnswerOf(state, FIELD_SEQUENCE[i]) = <<>>
  THEN CHOOSE i \in DOMAIN FIELD_SEQUENCE :
         /\ AnswerOf(state, FIELD_SEQUENCE[i]) = <<>>
         /\ \A j \in 1..(i - 1) : AnswerOf(state, FIELD_SEQUENCE[j]) # <<>>
  ELSE 0

\* ConversationState.update_field
update_field(state, field_key, value) ==
  [state EXCEPT !.answers[field_key] = Some(value)]

\* ConversationState.get_missing_fields
get_missing_fields(state) ==
  { f \in Fields :
      LET value == Strip(AnswerOf(state, f))
      IN value = <<>> \/ value \in Placeholders }

\* ConversationState.is_complete, DialogManager.is_complete
is_complete(state) == get_missing_fields(state) = {}

\* Orchestrator.is_ready
is_ready(state) == is_complete(state)

\* Orchestrator.generate_documents raises ValueError
generate_documents_raises(state) == ~is_ready(state)

\* DialogManager.accept_answer(answer)
accept_answer(answer) ==
  LET field == current_field(dialog.state)
      normalized == normalize_answer(answer)
  IN
  /\ dialog' =
       IF field = 0
       THEN [dialog EXCEPT !.returned = "", !.raised = FALSE]
       ELSE IF ~is_answer_valid(FIELD_SEQUENCE[field], normalized)
       THEN [dialog EXCEPT !.returned = "", !.raised = TRUE]
       ELSE [state |-> update_field(dialog.state, FIELD_SEQUENCE[field],
                                    normalized),
             returned |-> FIELD_SEQUENCE[field], raised |-> FALSE]
  /\ UNCHANGED << secret, gateway, caches, tasks, response, last, ended, agg,
                  fetch, hooks, nEvents, nEnv >>

\* ------------------------------------------------------------------------
\* Specifications
\* ------------------------------------------------------------------------
\* The events that start a review.
ReviewPayloads ==
  { MrPayload(m, "opened", act) : m \in MRs, act \in ReviewActions }
  \cup { PushPayload(HeadRef(b), TRUE) : b \in Branches }

\* GitLab sends a merge_request event in state "opened" for an MR that is
\* open; push events come for any branch at any time.
Deliverable(payload) ==
  payload.object_kind = "merge_request" => mrOpen[payload.mr]

\* The service after start-up: the caches are empty, no task exists.
Started ==
  /\ branchDiff \in { f \in [AllBranches -> Diffs] :
                         \A b \in OtherBranches : f[b] = << Entry("p1", "x") >> }
  /\ mrOpen \in [MRs -> BOOLEAN]
  /\ notes = [m \in MRs |-> <<>>]
  /\ labels = [m \in MRs |-> {"backend"}]
  /\ approved = [m \in MRs |-> FALSE]
  /\ processed_mr_cache = [m \in MRs |-> None]
  /\ diff_hash_cache = [m \in MRs |-> None]
  /\ diff_cache = [m \in MRs |-> None]
  /\ push_review_cache = [b \in AllBranches |-> None]
  /\ tasks = <<>>
  /\ response = NoResponse
  /\ last = NoTask
  /\ ended = NoRun
  /\ agg = NoAggregate
  /\ fetch = NoFetch
  /\ dialog = NoDialog
  /\ nEvents = 0
  /\ nEnv = 0

\* The webhook of the project sends the events that come from outside.
Init == secret = TRUE /\ Started /\ hooks = HooksOff

\* The service with its gateway: accepted events that start a review, the
\* review tasks with every call failing or not, and the gateway's users.
Next ==
  \/ /\ nEvents < MaxEvents
     /\ \E payload \in ReviewPayloads :
          Deliverable(payload) /\ gitlab_webhook("good", payload)
  \/ \E fails \in FailSets : process_mr_review_start(fails)
  \/ \E i \in 1..Len(tasks), out \in OracleOutcomes, fails \in FailSets :
       process_mr_review_resume(i, out, fails)
  \/ \E fails \in FailSets : process_push_review_start(fails)
  \/ \E i \in 1..Len(tasks), out \in OracleOutcomes, fails \in FailSets :
       process_push_review_resume(i, out, fails)
  \/ nEnv < MaxEnv /\ \E b \in Branches, d \in Diffs : DeveloperPush(b, d)
  \/ nEnv < MaxEnv /\ \E m \in MRs : SetMrState(m)
  \/ nEnv < MaxEnv /\ \E m \in MRs : HumanNotes(m, RecentNotes)

Spec == Init /\ [][Next]_vars

\* The webhook handler alone, with and without a configured secret, on
\* every kind of request.
InitWebhook == secret \in BOOLEAN /\ Started /\ hooks = HooksOff

NextWebhook ==
  /\ nEvents < MaxEvents
  /\ \E token \in Tokens, payload \in Payloads : gitlab_webhook(token, payload)

SpecWebhook == InitWebhook /\ [][NextWebhook]_vars

\* One event and two changes at the gateway more, and every call succeeds.
NoFailureResults ==
  { Result(<<FileWith("APPROVE")>>, FALSE),
    Result(<<FileWith("REJECT")>>, FALSE) }

NoFailureOutcomes == { [raised |-> FALSE, result |-> r] : r \in NoFailureResults }

NoFailurePayloads ==
  { MrPayload(m, "opened", "open") : m \in MRs }
  \cup { PushPayload(HeadRef(b), TRUE) : b \in Branches }

NextNoFailure ==
  \/ /\ nEvents < MaxEvents + 1
     /\ \E payload \in NoFailurePayloads :
          Deliverable(payload) /\ gitlab_webhook("good", payload)
  \/ process_mr_review_start({})
  \/ \E i \in 1..Len(tasks), out \in NoFailureOutcomes :
       process_mr_review_resume(i, out, {})
  \/ process_push_review_start({})
  \/ \E i \in 1..Len(tasks), out \in NoFailureOutcomes :
       process_push_review_resume(i, out, {})
  \/ nEnv < MaxEnv + 2 /\ \E b \in Branches, d \in Diffs : DeveloperPush(b, d)
  \/ nEnv < MaxEnv + 2 /\ \E m \in MRs : SetMrState(m)

SpecNoFailure == Init /\ [][NextNoFailure]_vars

\* One event more, the diff changing at the gateway, and of the calls only
\* review_mr and the lookup of the open MRs failing.
RetryOutcomes ==
  { [raised |-> TRUE, result |-> Result(<<>>, TRUE)],
    [raised |-> FALSE, result |-> Result(<<FileWith("APPROVE")>>, FALSE)] }

RetryFailSets == { {}, {"get_open_mrs_for_branch"} }

NextRetry ==
  \/ /\ nEvents < MaxEvents + 1
     /\ \E payload \in ReviewPayloads :
          Deliverable(payload) /\ gitlab_webhook("good", payload)
  \/ process_mr_review_start({})
  \/ \E i \in 1..Len(tasks), out \in RetryOutcomes :
       process_mr_review_resume(i, out, {})
  \/ process_push_review_start({})
  \/ \E i \in 1..Len(tasks), out \in RetryOutcomes, fails \in RetryFailSets :
       process_push_review_resume(i, out, fails)
  \/ nEnv < MaxEnv /\ \E b \in Branches, d \in Diffs : DeveloperPush(b, d)

SpecRetry == Init /\ [][NextRetry]_vars

\* Events for two subjects that have nothing in common: the merge request
\* and a branch without a merge request. No call fails.
SubjectPayloads ==
  { MrPayload(m, "opened", "open") : m \in MRs }
  \cup { PushPayload(HeadRef(b), TRUE) : b \in OtherBranches }

NextSubjects ==
  \/ /\ nEvents < MaxEvents + 1
     /\ \E payload \in SubjectPayloads :
          Deliverable(payload) /\ gitlab_webhook("good", payload)
  \/ process_mr_review_start({})
  \/ \E i \in 1..Len(tasks), out \in NoFailureOutcomes :
       process_mr_review_resume(i, out, {})
  \/ process_push_review_start({})
  \/ \E i \in 1..Len(tasks), out \in NoFailureOutcomes :
       process_push_review_resume(i, out, {})
  \/ nEnv < MaxEnv /\ \E b \in AllBranches, d \in Diffs : DeveloperPush(b, d)

SpecSubjects == Init /\ [][NextSubjects]_vars

\* One event from outside for an unchanging diff, and then the events the
\* service's own calls make the webhook send. Every call can fail.
MaxSent == 5

HookPayloads ==
  { OtherPayload("note") }
  \cup { MrPayload(m, "opened", act) : m \in MRs, act \in {"approved", "update"} }

ExternalEvent ==
  /\ nEvents = 0
  /\ hooks = NoHooks
  /\ \E payload \in ReviewPayloads :
       Deliverable(payload) /\ gitlab_webhook("good", payload)

SelfTriggeredEvent ==
  /\ nEvents < MaxSent
  /\ \E payload \in HookPayloads :
       HookOf(hooks, payload) # "" /\ gitlab_webhook("good", payload)

LoopTasks ==
  \/ \E fails \in FailSets : process_mr_review_start(fails)
  \/ \E i \in 1..Len(tasks), out \in OracleOutcomes, fails \in FailSets :
       process_mr_review_resume(i, out, fails)
  \/ \E fails \in FailSets : process_push_review_start(fails)
  \/ \E i \in 1..Len(tasks), out \in OracleOutcomes, fails \in FailSets :
       process_push_review_resume(i, out, fails)

\* The webhook of the project also sends the events the service causes.
InitLoop == secret = TRUE /\ Started /\ hooks = NoHooks

NextLoop == ExternalEvent \/ SelfTriggeredEvent \/ LoopTasks

\* The webhook sends what it has to send, the loop runs the tasks it was
\* given, and a call that a task waits for returns or raises.
SpecLoop ==
  /\ InitLoop
  /\ [][NextLoop]_vars
  /\ WF_vars(SelfTriggeredEvent)
  /\ WF_vars(LoopTasks)

\* The overall verdict of every list of at most MaxFiles file entries.
NextVerdict == \E f \in FileEntries : Aggregate(f)

SpecVerdict == Init /\ [][NextVerdict]_vars

\* Two fetches of every change of at most MaxEntries files.
NextFingerprint ==
  \/ \E e \in FetchedEntries : ChangeFile(e)
  \/ \E i, j \in 1..MaxEntries : ReorderEntries(i, j)
  \/ \E i \in 1..MaxEntries, p \in Paths : ChangeMetadata(i, p)

SpecFingerprint == Init /\ [][NextFingerprint]_vars

\* The dialog alone: the user answers question after question.
NextDialog == \E answer \in AnswerTexts : accept_answer(answer)

InitDialog ==
  /\ Init
  /\ \A m \in MRs : mrOpen[m]
  /\ \A b \in Branches : branchDiff[b] = <<>>

SpecDialog == InitDialog /\ [][NextDialog]_vars

\* ------------------------------------------------------------------------
\* Properties
\* ------------------------------------------------------------------------
\* The fingerprint of a diff as the gateway holds it.
GatewayHash(d) == DiffHash(DiffContentForHash(d))

\* The notes ns hold an AI comment with the comment hash of c.
OnGateway(ns, c) ==
  \E i \in DOMAIN ns :
    IsAiBody(ns[i].body) /\ CommentHash(ns[i].body) = CommentHash(c)

\* The same, among the RecentNotes notes at the end of ns.
InRecentNotes(ns, c) ==
  \E i \in DOMAIN ns :
    /\ i > Len(ns) - RecentNotes
    /\ IsAiBody(ns[i].body)
    /\ CommentHash(ns[i].body) = CommentHash(c)

\* The task that has just ended processed an MR "update" event directly
\* after a task that completed a review for the same event, and the
\* gateway's diff is the same as then.
Redelivered ==
  /\ last.kind = "mr"
  /\ last.action = "update"
  /\ last.before.kind = "mr"
  /\ last.before.action = "update"
  /\ last.before.mr = last.mr
  /\ last.before.outcome = "COMPLETED"
  /\ last.before.gwDiff = last.gwDiff

\* C1 (idempotent re-delivery): when process_mr_review has completed a
\* review for an MR "update" event and processes the same event again next,
\* the gateway's diff being unchanged, the second run ends as
\* SKIP_UNCHANGED: it posts no comment, makes no label or approval call and
\* does not call review_mr, so that the two runs together posted exactly one
\* comment and made exactly one label/approval call sequence.
C1_IdempotentRedelivery ==
  Redelivered =>
    /\ last.outcome = "SKIP_UNCHANGED"
    /\ last.oracle = 0
    /\ last.before.posts + (IF last.posted = None THEN 0 ELSE 1) = 1
    /\ last.before.labelSeq + last.labelSeq = 1
    /\ notes[last.mr] = last.preNotes
    /\ labels[last.mr] = last.preLabels

C1_Witness ==
  /\ Redelivered
  /\ last.outcome = "SKIP_UNCHANGED"
  /\ Len(notes[last.mr]) = 1

\* C2 (at most one comment per fingerprint): no MR carries two review
\* comments that were posted for the same diff fingerprint.
C2_OneCommentPerFingerprint ==
  \A m \in MRs :
    \A i, j \in DOMAIN notes[m] :
      (i # j /\ IsAiBody(notes[m][i].body) /\ IsAiBody(notes[m][j].body))
        => notes[m][i].fp # notes[m][j].fp

\* C3 (record only after the post): when post_mr_comment fails in
\* process_mr_review, diff_hash_cache holds for the MR what it held before
\* the run.
C3_RecordOnlyAfterPost ==
  (last.kind = "mr" /\ last.failed = "post_mr_comment")
    => diff_hash_cache[last.mr] = last.preDhc

\* C4 (skip only on the current diff): an MR event for which the gateway
\* holds a diff with content ends as SKIP_UNCHANGED only if the fingerprint
\* recorded as analyzed is the fingerprint of that diff.
C4_SkipOnlyIfCurrent ==
  ( /\ last.kind = "mr"
    /\ last.outcome = "SKIP_UNCHANGED"
    /\ DiffContentForHash(last.gwDiff) # <<>> )
  => last.preDhc = Some(GatewayHash(last.gwDiff))

\* The task that has just ended processed an MR "open" event directly after
\* a push task stored its review for the same branch, the stored review is
\* for the fingerprint of the diff the gateway holds, and that fingerprint
\* is not yet recorded as analyzed for the MR.
Promotable ==
  /\ last.kind = "mr"
  /\ last.action = "open"
  /\ last.before.kind = "push"
  /\ last.before.branch = last.branch
  /\ last.before.outcome = "PENDING_STORED"
  /\ last.prePrc # None
  /\ last.prePrc[1].diff_hash = GatewayHash(last.gwDiff)
  /\ last.preDhc # Some(GatewayHash(last.gwDiff))

\* C5 (push-then-open promotion): an MR "open" event that follows a push
\* analyzed without an open MR, for the same branch and the same diff
\* fingerprint, posts the stored comment without calling review_mr, removes
\* the pending entry of the branch and records the fingerprint as analyzed.
C5_Promotion ==
  Promotable =>
    /\ last.outcome = "PROMOTED"
    /\ last.posted = Some(last.prePrc[1].comment)
    /\ last.oracle = 0
    /\ push_review_cache[last.branch] = None
    /\ diff_hash_cache[last.mr] = Some(GatewayHash(last.gwDiff))

ScannedAndRecent ==
  /\ last.mr \in MRs
  /\ last.guard = "scanned"
  /\ last.comment # None
  /\ last.prePmc = None
  /\ InRecentNotes(last.preNotes, last.comment[1])

DispatchedTogether ==
  /\ last.kind = "mr"
  /\ last.together
  /\ last.before.kind = "mr"
  /\ last.before.mr = last.mr
  /\ last.before.outcome \in {"COMPLETED", "PROMOTED"}
  /\ last.before.gwDiff = last.gwDiff

Ignorable(p) ==
  \/ p.object_kind = "note"
  \/ /\ p.object_kind = "merge_request"
     /\ p.attrs
     /\ \/ p.state \in {"closed", "merged"}
        \/ p.action = "approved"
        \/ p.action \notin {"open", "update", "reopen"}

\* C8 (event filtering): a request that passes the token check and carries
\* a note event, a merge_request event in state closed or merged, one with
\* action "approved" or one with an action outside {open, update, reopen}
\* is answered 200 and no review task is created for it (the handler itself
\* calls neither the gateway nor review_mr).
C8_EventFiltering ==
  (response.parsed /\ Ignorable(response.payload))
    => /\ response.status = HTTP_200_OK
       /\ ~response.scheduled

C8_Witness ==
  /\ response.parsed
  /\ response.payload.object_kind = "merge_request"
  /\ response.payload.state = "opened"
  /\ response.payload.action = "close"
  /\ response.status = HTTP_200_OK
  /\ ~response.scheduled
  /\ Len(tasks) = 1

\* C9 (webhook authentication): with a secret configured, a request whose
\* token is missing or different is answered 401, its payload is not parsed
\* and no review task is created; with no secret configured every request
\* passes the check.
C9_Unauthorized401 ==
  /\ (secret /\ response.status # 0 /\ response.token # "good")
       => /\ response.status = HTTP_401_UNAUTHORIZED
          /\ ~response.parsed
          /\ ~response.scheduled
  /\ (~secret /\ response.status # 0) => response.parsed

\* C10 (verdict aggregation): for a non-empty list of file entries, a
\* missing verdict counting as CHANGES_REQUESTED, the overall verdict is
\* APPROVE exactly if every verdict is APPROVE, REJECT if some verdict is
\* REJECT, CHANGES_REQUESTED otherwise, and all four sites compute the same.
C10_VerdictAggregation ==
  agg.files # <<>> =>
    LET vs == [i \in DOMAIN agg.files |->
                 IF agg.files[i].verdict = None THEN "CHANGES_REQUESTED"
                 ELSE agg.files[i].verdict[1]]
        every == \A i \in DOMAIN vs : vs[i] = "APPROVE"
        some == \E i \in DOMAIN vs : vs[i] = "REJECT"
    IN /\ (agg.fresh = "APPROVE") <=> every
       /\ some => agg.fresh = "REJECT"
       /\ (~every /\ ~some) => agg.fresh = "CHANGES_REQUESTED"
       /\ agg.pending = agg.fresh
       /\ agg.push = agg.fresh
       /\ agg.header = agg.fresh

C10_Witness ==
  /\ Len(agg.files) = MaxFiles
  /\ \E i \in DOMAIN agg.files : agg.files[i] = FileNoVerdict
  /\ \E i \in DOMAIN agg.files : agg.files[i] = FileWith("APPROVE")
  /\ \E i \in DOMAIN agg.files : agg.files[i] = FileWith("REJECT")
  /\ agg.fresh = "REJECT"
  /\ agg.header = "REJECT"

\* C11 (verdict-to-merge-state mapping): when a review of an MR completes
\* and every gateway call succeeded, the MR carries ai-review-blocked
\* exactly if the overall verdict is CHANGES_REQUESTED or REJECT, it is
\* approved only if the verdict is APPROVE, and it carries the labels of the
\* verdict.
C11_VerdictToMergeState ==
  (last.kind = "mr" /\ last.outcome \in {"COMPLETED", "PROMOTED"}) =>
    /\ ("ai-review-blocked" \in labels[last.mr])
         <=> (last.overall \in {"CHANGES_REQUESTED", "REJECT"})
    /\ approved[last.mr] => last.overall = "APPROVE"
    /\ VerdictLabels(last.overall) \subseteq labels[last.mr]

\* C12 (label union): a completed review, by process_mr_review or by
\* process_push_review against an open MR, removes no label of the MR other
\* than ai-review-blocked, and the labels afterwards hold nothing but the
\* labels before, the labels of the verdict and ai-review-blocked.
C12_LabelUnion ==
  (last.outcome \in {"COMPLETED", "PROMOTED", "PUSH_POSTED"}) =>
    /\ (last.preLabels \ {"ai-review-blocked"}) \subseteq labels[last.mr]
    /\ labels[last.mr] \subseteq
         (last.preLabels \cup VerdictLabels(last.overall)
            \cup {"ai-review-blocked"})

\* C17 (push against an open MR): when process_push_review has posted its
\* comment to the open MR of the branch and applied the verdict, the diff
\* fingerprint and the comment hash are recorded for that MR.
C17_PushRecordsAnalyzed ==
  (last.kind = "push" /\ last.outcome = "PUSH_POSTED") =>
    /\ diff_hash_cache[last.mr] = last.hash
    /\ processed_mr_cache[last.mr] = Some(CommentHash(last.comment[1]))

\* C13 (malformed oracle output): when review_mr returns the fallback of
\* _parse_response for an MR event and no call fails, the event ends with
\* the overall verdict CHANGES_REQUESTED and its comment posted, or found
\* to be on the MR already.
C13_MalformedOutput ==
  ( /\ last.kind = "mr"
    /\ last.oracle = 1
    /\ last.result = Some(Result(<<>>, TRUE))
    /\ last.failed = "" )
  => /\ last.overall = "CHANGES_REQUESTED"
     /\ last.comment # None
     /\ (last.posted = last.comment \/ last.outcome = "SKIP_DUPLICATE")

\* C14 (empty outcome): a task whose review result holds no file entries
\* emits no overall verdict, posts no comment and makes no label, approval
\* or block call.
C14_EmptyOutcome ==
  (last.result # None /\ last.result[1].files = <<>>) =>
    /\ last.overall = ""
    /\ last.posted = None
    /\ last.labelSeq = 0
    /\ last.mr \in MRs =>
         (notes[last.mr] = last.preNotes /\ labels[last.mr] = last.preLabels)

\* C18 (push with no open MR): a push task that finds no open MR for the
\* branch stores the result, the comment, the comment hash and the diff
\* hash in push_review_cache under the branch, and changes nothing at the
\* gateway and nothing in the other caches.
C18_PendingStored ==
  [][ (last'.kind = "push" /\ last'.outcome = "PENDING_STORED") =>
        /\ UNCHANGED gateway
        /\ UNCHANGED << processed_mr_cache, diff_hash_cache, diff_cache >>
        /\ last'.posted = None
        /\ last'.labelSeq = 0
        /\ push_review_cache'[last'.branch] # None
        /\ LET pend == push_review_cache'[last'.branch][1] IN
           /\ pend.review_result = last'.result[1]
           /\ pend.comment = last'.comment[1]
           /\ pend.comment_hash = CommentHash(last'.comment[1])
           /\ pend.diff_hash = last'.hash[1] ]_vars

C18_Witness ==
  /\ last.kind = "push"
  /\ last.outcome = "PENDING_STORED"
  /\ OpenMrs(last.branch) = {}
  /\ last.result[1].files # <<>>
  /\ push_review_cache[last.branch] # None

\* C19 (SKIP_UNCHANGED frame): a run of process_mr_review that finds the
\* recorded fingerprint equal to the current one calls neither review_mr
\* nor a changing operation of the gateway, and leaves diff_hash_cache,
\* processed_mr_cache and push_review_cache as they were.
C19_SkipUnchangedFrame ==
  [][ (last'.outcome = "SKIP_UNCHANGED") =>
        /\ last'.kind = "mr"
        /\ last'.hash # None
        /\ diff_hash_cache[last'.mr] = last'.hash
        /\ last'.oracle = 0
        /\ last'.posted = None
        /\ last'.labelSeq = 0
        /\ last'.calls <= 1
        /\ UNCHANGED gateway
        /\ UNCHANGED << processed_mr_cache, diff_hash_cache,
                        push_review_cache >> ]_vars

C19_Witness ==
  /\ last.kind = "mr"
  /\ last.action = "reopen"
  /\ last.outcome = "SKIP_UNCHANGED"
  /\ last.preDhc = last.hash
  /\ notes[last.mr] # <<>>

\* C20 (oracle failure): when review_mr raises in a task, the task has
\* changed none of diff_cache, diff_hash_cache, processed_mr_cache and
\* push_review_cache, and nothing at the gateway.
C20_OracleFailureFrame ==
  (last.failed = "review_mr") =>
    /\ last.kind = "mr" => diff_cache[last.mr] = last.preDc
    /\ last.mr \in MRs =>
         /\ processed_mr_cache[last.mr] = last.prePmc
         /\ diff_hash_cache[last.mr] = last.preDhc
         /\ notes[last.mr] = last.preNotes
         /\ labels[last.mr] = last.preLabels
    /\ push_review_cache[last.branch] = last.prePrc
    /\ last.posted = None
    /\ last.labelSeq = 0

\* C15 (fingerprint stability): two fetches of one change that differ in
\* the order of the entries and in the fields other than the diff body have
\* the same fingerprint, in process_mr_review and in process_push_review.
C15_FingerprintStability ==
  /\ fetch.mrSecond = fetch.mrFirst
  /\ fetch.pushSecond = fetch.pushFirst
  /\ fetch.pushFirst = fetch.mrFirst

\* C16 (immediate acknowledgement): a request that dispatches an MR or push
\* event is answered 200 by a handler run that calls neither the gateway nor
\* review_mr and changes no cache; it leaves one more task behind, created
\* and not started, and the tasks that existed are where they were.
C16_ImmediateAck ==
  [][ response'.scheduled =>
        /\ response'.status = HTTP_200_OK
        /\ UNCHANGED gateway
        /\ UNCHANGED caches
        /\ last' = NoTask
        /\ Len(tasks') = Len(tasks) + 1
        /\ \A j \in 1..Len(tasks) : tasks'[j] = tasks[j]
        /\ tasks'[Len(tasks')].pc = "created" ]_vars

C16_Witness ==
  /\ response.scheduled
  /\ response.status = HTTP_200_OK
  /\ ended.outcome = "COMPLETED"
  /\ Len(tasks) = 1
  /\ tasks[1].pc = "created"
  /\ tasks[1].kind = "push"

\* C21 (empty change set): a task that starts while no entry of the diff the
\* gateway holds has content calls review_mr not at all, changes nothing at
\* the gateway and writes no cache entry.
C21_EmptyChangeSet ==
  (last.kind # "none" /\ DiffContentForHash(last.gwDiff) = <<>>) =>
    /\ last.oracle = 0
    /\ last.posted = None
    /\ last.labelSeq = 0
    /\ last.kind = "mr" => diff_cache[last.mr] = last.preDc
    /\ last.mr \in MRs =>
         /\ processed_mr_cache[last.mr] = last.prePmc
         /\ diff_hash_cache[last.mr] = last.preDhc
         /\ notes[last.mr] = last.preNotes
         /\ labels[last.mr] = last.preLabels
    /\ push_review_cache[last.branch] = last.prePrc

\* The request has been dispatched to process_push_review.
DispatchedAsPush ==
  /\ response.scheduled
  /\ tasks # <<>>
  /\ tasks[Len(tasks)].kind = "push"
  /\ tasks[Len(tasks)].pc = "created"

\* C22 (push classification): a request that passes the token check is
\* dispatched to process_push_review exactly if its object_kind is push,
\* its ref is not the ref of the trunk (main, master) and it has commits.
C22_PushClassification ==
  response.parsed =>
    ( DispatchedAsPush
        <=> /\ response.payload.object_kind = "push"
            /\ response.payload.ref \notin {HeadRef("main"), HeadRef("master")}
            /\ response.payload.commits )

\* The task that has just ended processed an MR "open" event past the gate
\* and the fetch of the MR's data, and push_review_cache held for the branch
\* a review with another diff hash than that of the diff the gateway holds.
PendingMismatch ==
  /\ last.kind = "mr"
  /\ last.action = "open"
  /\ last.gate
  /\ last.failed # "get_mr_info"
  /\ last.prePrc # None
  /\ DiffContentForHash(last.gwDiff) # <<>>
  /\ last.prePrc[1].diff_hash # GatewayHash(last.gwDiff)

\* C23 (promotion mismatch): an MR "open" event that finds a pending push
\* review with another diff hash than the MR's current one does not reuse
\* it: it calls review_mr, what it posts is the comment rendered from that
\* call's result, and the pending entry is not consumed.
C23_PromotionMismatch ==
  PendingMismatch =>
    /\ last.oracle = 1
    /\ last.outcome # "PROMOTED"
    /\ last.posted # None =>
         /\ last.result # None
         /\ last.posted = Some(format_review_comment(last.result[1]))
    /\ push_review_cache[last.branch] = last.prePrc

\* C24 (fast path only for "open"): an MR event with action "update" or
\* "reopen" leaves the pending push review of the branch where it is and
\* does not publish it: past the gate it calls review_mr.
C24_FastPathOnlyOnOpen ==
  (last.kind = "mr" /\ last.action \in {"update", "reopen"}) =>
    /\ push_review_cache[last.branch] = last.prePrc
    /\ last.outcome # "PROMOTED"
    /\ (last.gate /\ last.failed # "get_mr_info") => last.oracle = 1

C24_Witness ==
  /\ last.kind = "mr"
  /\ last.action = "update"
  /\ last.outcome = "COMPLETED"
  /\ last.prePrc # None
  /\ last.prePrc[1].diff_hash = last.hash[1]
  /\ push_review_cache[last.branch] = last.prePrc

\* C25 (fingerprint agreement across paths): for one list of diff entries,
\* the diff hash process_push_review computes, the one process_mr_review
\* computes after a fetch and the one it recomputes from a diff_cache entry
\* are the same.
C25_FingerprintAgreement ==
  /\ fetch.pushFirst = fetch.mrFirst
  /\ fetch.mrCached = fetch.mrFirst

C25_Witness ==
  /\ Len(fetch.first) >= 2
  /\ fetch.mrFirst # <<>>
  /\ \E i \in DOMAIN fetch.first : ~HasContent(fetch.first[i].diff)
  /\ \E i \in DOMAIN fetch.first : fetch.first[i].diff = "y"

\* The task that has just ended processed the same event as the task before
\* it, for the same diff at the gateway, and that task posted its comment
\* and then ended on a failed call (after the post only the calls that set
\* labels, approve and block are made).
RedeliveredAfterPartialFailure ==
  /\ last.kind # "none"
  /\ last.before.kind = last.kind
  /\ last.before.mr = last.mr
  /\ last.before.action = last.action
  /\ last.before.branch = last.branch
  /\ last.before.gwDiff = last.gwDiff
  /\ last.before.posts = 1
  /\ last.before.outcome = "ERROR"

\* C26 (partial gateway failure): the re-delivery of an event whose task
\* posted its comment and then failed on a label, approval or block call
\* does not post a comment that the MR already holds.
C26_PartialFailure ==
  RedeliveredAfterPartialFailure =>
    ~(last.posted # None /\ OnGateway(last.preNotes, last.posted[1]))

\* A task waits for review_mr while the first task the loop has not started
\* is for another branch, and of the two branches one has no merge request.
OtherSubjectWaiting ==
  /\ \E i \in 1..Len(tasks) : tasks[i].pc = "created"
  /\ \E i \in 1..Len(tasks) :
       /\ tasks[i].pc = "oracle"
       /\ tasks[i].branch # tasks[NextCreated].branch
       /\ tasks[i].kind # tasks[NextCreated].kind

\* C27 (unrelated subjects run in parallel): while the review of one
\* subject waits for review_mr, the review of another subject that has been
\* scheduled can start.
C27_UnrelatedInParallel ==
  OtherSubjectWaiting =>
    ENABLED (process_mr_review_start({}) \/ process_push_review_start({}))

\* No task is left and the webhook has nothing to send.
Quiescent ==
  /\ tasks = <<>>
  /\ hooks.note = 0
  /\ hooks.approved = 0
  /\ hooks.update = 0

\* C28 (loop termination): after one event from outside, with the diff
\* unchanged, the events caused by the service's own comments, approvals
\* and label changes come to an end: from some state on no task is left
\* and no event is left to send.
C28_LoopTermination == <>[]Quiescent

\* An update event caused by the service's own label change has been
\* processed and skipped as unchanged, and nothing is left to do.
C28_Witness ==
  /\ Quiescent
  /\ hooks.on
  /\ nEvents >= 2
  /\ last.kind = "mr"
  /\ last.action = "update"
  /\ last.outcome = "SKIP_UNCHANGED"
  /\ last.before.posts = 1

\* C29 (DiffSnapshot self-consistency): the hash of every diff_cache entry
\* is the hash recomputed from the entry's diff, and a run of
\* process_mr_review that found an entry went on with the entry's diff and
\* hash: it did not call get_mr_changes and left the entry as it was.
C29_SnapshotConsistent ==
  /\ \A m \in MRs :
       diff_cache[m] # None =>
         /\ CachedDiffContentForHash(diff_cache[m][1].diff) # <<>>
         /\ DiffHash(CachedDiffContentForHash(diff_cache[m][1].diff))
              = diff_cache[m][1].hash
  /\ (last.kind = "mr" /\ last.preDc # None) =>
       /\ last.failed # "get_mr_changes"
       /\ last.outcome # "NO_CHANGES"
       /\ last.hash = Some(last.preDc[1].hash)
       /\ diff_cache[last.mr] = last.preDc

\* A run went on with the entry it found while the gateway held another
\* diff for the merge request.
C29_Witness ==
  /\ last.kind = "mr"
  /\ last.preDc # None
  /\ last.gate
  /\ DiffContentForHash(last.gwDiff) # <<>>
  /\ GatewayHash(last.gwDiff) # last.preDc[1].hash

\* C30 (dialog completion): when the DialogManager has no next question,
\* the conversation state is complete and generate_documents accepts it.
C30_DialogCompletion ==
  current_field(dialog.state) = 0 =>
    /\ is_complete(dialog.state)
    /\ ~generate_documents_raises(dialog.state)

====
